---- MODULE Spec2Model ----
(***************************************************************************)
(* Kill attribution of endstone_papi: the KillTracker ledger               *)
(* (kill_tracker.py) and the plugin handlers that drive it (plugin.py).    *)
(*                                                                         *)
(* The three dictionaries of KillTracker are functions whose DOMAIN is the *)
(* set of keys present.  time.time() is the variable now, in seconds; it   *)
(* only moves by Tick.  Every method is a functional operator on the       *)
(* dictionaries (named as in the source) and every call is an action.      *)
(***************************************************************************)
EXTENDS Integers, FiniteSets, Sequences, TLC

\* ------------------------------------------------------------------ inputs
Players == {"alice", "bob"}

\* An entity that is not a Player (isinstance(..., Player) is false).
Mob == "zombie"

Entities == Players \cup {Mob}

\* Python's None as a returned killer name.
None == "none"

\* KillTracker(combat_timeout=10.0)
combat_timeout == 10

\* The clock stops at MaxTime; a counter stops at MaxKills.
MaxTime == 21

MaxKills == 2

\* The plugins that register placeholders: this plugin and one other.
OwnPlugin == "papi"

PluginNames == {OwnPlugin, "shop"}

\* Identifiers offered for registration: a built-in one, a fresh one, and one
\* that spells the fallback name of the fresh one.
Identifiers == {"x", "rank", "shop:rank"}

\* Processors are compared by identity only.
Processors == {"f", "g"}

BuiltinProcessor == "builtin"

DefaultIdentifiers ==
    <<"x", "y", "z", "player_name", "dimension", "dimension_id", "ping",
      "mc_version", "online", "max_online", "date", "time", "datetime",
      "year", "month", "day", "hour", "minute", "second", "address",
      "runtime_id", "exp_level", "total_exp", "exp_progress", "game_mode",
      "xuid", "uuid", "device_os", "locale">>

KillIdentifiers == <<"kills", "killstreak">>

\* Where it is counted, a victim's count of hits not yet answered by a
\* credited kill stops at MaxUnspent.
MaxUnspent == 2

\* Amounts of seconds by which the clock moves between two callbacks: the
\* ages 0, 1, 9, 10, 11 and more of a record come from these.
TickSteps == {combat_timeout, combat_timeout + 1}

\* ------------------------------------------------------------ dictionaries
EmptyDict == [x \in {} |-> 0]

\* d[k] = v
Put(d, k, v) == [x \in DOMAIN d \cup {k} |-> IF x = k THEN v ELSE d[x]]

\* d.pop(k, None)
Pop(d, k) == [x \in DOMAIN d \ {k} |-> d[x]]

\* d.get(k, default)
Get(d, k, default) == IF k \in DOMAIN d THEN d[k] ELSE default

\* ------------------------------------------------------------------- state
VARIABLES
    kills,        \* self._kills: {player_name: kill_count}
    killstreaks,  \* self._killstreaks: {player_name: streak_count}
    last_damage,  \* self._last_damage: {victim_name: (damager_name, timestamp)}
    now,          \* time.time()
    ret,          \* what the most recent call returned
    lastHit,      \* history: the last record_damage per victim since its
                  \* last reset_killstreak / clear_player_data
    event,        \* history: the call that led to this state (NoEvent after
                  \* a move of the clock)
    calls,        \* history: per player, the add_kill calls since its last
                  \* clear (kills) and since its last reset or clear (streak)
    unspent,      \* history, kept where Init starts it: per victim, the
                  \* record_damage calls against it minus the kills credited
                  \* for its deaths
    twin_kills,   \* a second ledger that receives the same calls except
    twin_streaks, \* cleanup_old_damage_records
    twin_damage,
    registry,     \* PlaceholderAPI._registry: identifier -> processor
    reg_call      \* history: the last call on the registry and its result

registryVars == <<registry, reg_call>>

vars == <<kills, killstreaks, last_damage, now, ret, lastHit, event, calls, unspent,
          twin_kills, twin_streaks, twin_damage, registry, reg_call>>

\* Return values: None, a player name, or an int.
RetNone == [kind |-> "none", name |-> None, num |-> 0]

RetName(n) == IF n = None THEN RetNone ELSE [kind |-> "name", name |-> n, num |-> 0]

RetInt(i) == [kind |-> "int", name |-> None, num |-> i]

NoHit == [damager |-> None, time |-> 0]

\* event: the operation, the player it was called for, the last hit that
\* player had taken before the call (NoHit when it had none since its last
\* reset or clear), and for a death the players the server finds online.
NoEvent == [op |-> "none", who |-> None, hit |-> NoHit, online |-> {}]

Event(op, who, online) ==
    [op |-> op, who |-> who, hit |-> IF who = None THEN NoHit ELSE lastHit[who],
     online |-> online]

\* unspent with d added for victim, where it is counted.
Counted(u, victim, d) ==
    IF victim \in DOMAIN u THEN [u EXCEPT ![victim] = @ + d] ELSE u

NoCalls == [kills |-> 0, streak |-> 0]

\* calls after one more add_kill(player).
Called(c, player) ==
    [c EXCEPT ![player] = [kills |-> @.kills + 1, streak |-> @.streak + 1]]

\* ----------------------------------------------------- KillTracker methods
\* A first-hit ledger: an existing record is kept.
record_damage_first_hit(ld, victim, damager, t) ==
    IF victim \in DOMAIN ld
    THEN ld
    ELSE Put(ld, victim, [damager |-> damager, time |-> t])

\* self._last_damage[victim_name] = (damager_name, current_time)
record_damage(ld, victim, damager, t) ==
    Put(ld, victim, [damager |-> damager, time |-> t])

\* The validity test with the boundary left out.
get_valid_killer_exclusive(ld, victim, t) ==
    IF victim \in DOMAIN ld /\ t - ld[victim].time < combat_timeout
    THEN ld[victim].damager
    ELSE None

get_valid_killer(ld, victim, t) ==
    IF victim \notin DOMAIN ld
    THEN None
    ELSE LET time_elapsed == t - ld[victim].time
         IN  IF time_elapsed <= combat_timeout
             THEN ld[victim].damager
             ELSE None

\* An add_kill whose default for an unknown player is 1.
add_kill_kills_from_one(k, player) == Put(k, player, Get(k, player, 1) + 1)

\* self._kills[player_name] = self._kills.get(player_name, 0) + 1
add_kill_kills(k, player) == Put(k, player, Get(k, player, 0) + 1)

\* An add_kill that starts the streak again at 1.
add_kill_streaks_restart(s, player) == Put(s, player, 1)

\* self._killstreaks[player_name] = self._killstreaks.get(player_name, 0) + 1
add_kill_streaks(s, player) == Put(s, player, Get(s, player, 0) + 1)

\* A reset that takes one kill off the streak.
reset_killstreak_streaks_decrement(s, player) == Put(s, player, Get(s, player, 0) - 1)

\* self._killstreaks[player_name] = 0
reset_killstreak_streaks(s, player) == Put(s, player, 0)

\* A reset that leaves the damage record in place.
reset_killstreak_damage_kept(ld, player) == ld

\* self._last_damage.pop(player_name, None)
reset_killstreak_damage(ld, player) == Pop(ld, player)

\* A get_kills that answers -1 for a player it does not know.
get_kills_unknown(k, player) == Get(k, player, -1)

get_kills(k, player) == Get(k, player, 0)

get_killstreak(s, player) == Get(s, player, 0)

\* A clear that empties the whole kill map.
clear_player_data_kills_all(k, player_name) == EmptyDict

clear_player_data_kills(k, player_name) == Pop(k, player_name)

\* A clear that leaves the killstreak in place.
clear_player_data_streaks_kept(s, player_name) == s

clear_player_data_streaks(s, player_name) == Pop(s, player_name)

\* A clear that leaves the damage record in place.
clear_player_data_damage_kept(ld, player_name) == ld

clear_player_data_damage(ld, player_name) == Pop(ld, player_name)

\* A sweep that also removes the records of age exactly combat_timeout.
cleanup_old_damage_records_inclusive(ld, t) ==
    [victim_name \in {v \in DOMAIN ld : t - ld[v].time < combat_timeout} |->
        ld[victim_name]]

\* A sweep that removes nothing.
cleanup_old_damage_records_none(ld, t) == ld

cleanup_old_damage_records(ld, t) ==
    LET expired_victims ==
            {victim_name \in DOMAIN ld : t - ld[victim_name].time > combat_timeout}
    IN  [victim_name \in DOMAIN ld \ expired_victims |-> ld[victim_name]]

\* ---------------------------------------------------------- plugin handlers
\* A handler without the self-damage test.
damage_is_tracked_self(entity, damager) ==
    entity \in Players /\ damager \in Players

\* on_entity_damage_by_entity: whether the event reaches record_damage.
damage_is_tracked(entity, damager) ==
    /\ entity \in Players
    /\ damager \in Players
    /\ entity # damager

\* A handler that credits a killer the server does not find online.
death_credit_offline(ld, victim, online, t) == get_valid_killer(ld, victim, t)

\* A handler that credits the recorded damager whatever the age of the record.
death_credit_no_timeout(ld, victim, online, t) ==
    IF victim \in DOMAIN ld /\ ld[victim].damager \in online
    THEN ld[victim].damager
    ELSE None

\* on_player_death: the player add_kill is called for, None when it is not
\* called.  online is the set of names server.get_player finds online.
death_credit(ld, victim, online, t) ==
    LET killer_name == get_valid_killer(ld, victim, t)
    IN  IF killer_name # None /\ killer_name \in online
        THEN killer_name
        ELSE None

on_player_death_kills(k, ld, victim, online, t) ==
    LET killer == death_credit(ld, victim, online, t)
    IN  IF killer # None THEN add_kill_kills(k, killer) ELSE k

on_player_death_streaks(s, ld, victim, online, t) ==
    LET killer == death_credit(ld, victim, online, t)
    IN  reset_killstreak_streaks(
            IF killer # None THEN add_kill_streaks(s, killer) ELSE s, victim)

\* A handler that leaves the victim's record in place.
on_player_death_damage_kept(ld, victim) == ld

on_player_death_damage(ld, victim) == reset_killstreak_damage(ld, victim)

\* ----------------------------------------------------------------- registry
is_registered(reg, identifier) == identifier \in DOMAIN reg

\* f"{plugin.name}:{identifier}"
fallback_identifier(plugin, identifier) == plugin \o ":" \o identifier

\* The name register_placeholder ends up trying.
register_placeholder_identifier(reg, plugin, identifier) ==
    IF is_registered(reg, identifier)
    THEN fallback_identifier(plugin, identifier)
    ELSE identifier

\* A register_placeholder that never refuses.
register_placeholder_always(reg, plugin, identifier) == TRUE

\* The value register_placeholder returns.
register_placeholder(reg, plugin, identifier) ==
    ~is_registered(reg, register_placeholder_identifier(reg, plugin, identifier))

\* The registry register_placeholder leaves.
register_placeholder_registry(reg, plugin, identifier, processor) ==
    IF register_placeholder(reg, plugin, identifier)
    THEN Put(reg, register_placeholder_identifier(reg, plugin, identifier), processor)
    ELSE reg

\* register_placeholder(self._plugin, id, <built-in>) for each id in turn.
RECURSIVE register_builtin(_, _)
register_builtin(reg, identifiers) ==
    IF identifiers = <<>>
    THEN reg
    ELSE register_builtin(
             register_placeholder_registry(reg, OwnPlugin, Head(identifiers),
                                           BuiltinProcessor),
             Tail(identifiers))

_register_default_placeholders(reg) == register_builtin(reg, DefaultIdentifiers)

_register_kill_placeholders(reg) == register_builtin(reg, KillIdentifiers)

NoRegCall ==
    [op |-> "none", plugin |-> None, identifier |-> None, processor |-> None,
     result |-> FALSE]

\* ------------------------------------------------------------------ actions
InitLedger ==
    /\ kills = EmptyDict
    /\ killstreaks = EmptyDict
    /\ last_damage = EmptyDict
    /\ now = 0
    /\ ret = RetNone
    /\ lastHit = [p \in Players |-> NoHit]
    /\ event = NoEvent
    /\ calls = [p \in Players |-> NoCalls]
    /\ twin_kills = EmptyDict
    /\ twin_streaks = EmptyDict
    /\ twin_damage = EmptyDict

\* PlaceholderAPI.__init__
InitRegistry ==
    /\ registry = _register_default_placeholders(EmptyDict)
    /\ reg_call = NoRegCall

Init == InitLedger /\ InitRegistry /\ unspent = EmptyDict

\* The same start, with the hits and credits of every victim counted.
CountingInit == InitLedger /\ InitRegistry /\ unspent = [p \in Players |-> 0]

\* The clock moves between two callbacks.
Tick(d) ==
    /\ now + d <= MaxTime
    /\ now' = now + d
    /\ event' = NoEvent
    /\ UNCHANGED registryVars
    /\ UNCHANGED <<kills, killstreaks, last_damage, ret, lastHit, calls, unspent,
                   twin_kills, twin_streaks, twin_damage>>

\* A record_damage that makes sure both players have a killstreak entry.
RecordDamageWithEntries(victim, damager) ==
    /\ last_damage' = record_damage(last_damage, victim, damager, now)
    /\ twin_damage' = record_damage(twin_damage, victim, damager, now)
    /\ killstreaks' =
           [p \in DOMAIN killstreaks \cup {victim, damager} |->
               get_killstreak(killstreaks, p)]
    /\ lastHit' = [lastHit EXCEPT ![victim] = [damager |-> damager, time |-> now]]
    /\ victim \in DOMAIN unspent => unspent[victim] < MaxUnspent
    /\ unspent' = Counted(unspent, victim, 1)
    /\ event' = Event("record_damage", victim, {})
    /\ UNCHANGED registryVars
    /\ ret' = RetNone
    /\ UNCHANGED <<kills, now, calls, twin_kills, twin_streaks>>

RecordDamage(victim, damager) ==
    /\ last_damage' = record_damage(last_damage, victim, damager, now)
    /\ twin_damage' = record_damage(twin_damage, victim, damager, now)
    /\ lastHit' = [lastHit EXCEPT ![victim] = [damager |-> damager, time |-> now]]
    /\ victim \in DOMAIN unspent => unspent[victim] < MaxUnspent
    /\ unspent' = Counted(unspent, victim, 1)
    /\ event' = Event("record_damage", victim, {})
    /\ UNCHANGED registryVars
    /\ ret' = RetNone
    /\ UNCHANGED <<kills, killstreaks, now, calls, twin_kills, twin_streaks>>

\* A get_valid_killer that deletes the record it finds expired.
GetValidKillerPurging(victim) ==
    /\ event' = Event("get_valid_killer", victim, {})
    /\ UNCHANGED registryVars
    /\ ret' = RetName(get_valid_killer(last_damage, victim, now))
    /\ last_damage' =
           IF get_valid_killer(last_damage, victim, now) = None
           THEN Pop(last_damage, victim)
           ELSE last_damage
    /\ UNCHANGED <<kills, killstreaks, now, lastHit, calls, unspent,
                   twin_kills, twin_streaks, twin_damage>>

GetValidKiller(victim) ==
    /\ event' = Event("get_valid_killer", victim, {})
    /\ UNCHANGED registryVars
    /\ ret' = RetName(get_valid_killer(last_damage, victim, now))
    /\ UNCHANGED <<kills, killstreaks, last_damage, now, lastHit, calls, unspent,
                   twin_kills, twin_streaks, twin_damage>>

AddKill(player) ==
    /\ get_kills(kills, player) < MaxKills
    /\ kills' = add_kill_kills(kills, player)
    /\ killstreaks' = add_kill_streaks(killstreaks, player)
    /\ twin_kills' = add_kill_kills(twin_kills, player)
    /\ twin_streaks' = add_kill_streaks(twin_streaks, player)
    /\ ret' = RetNone
    /\ calls' = Called(calls, player)
    /\ unspent' = unspent
    /\ event' = Event("add_kill", player, {})
    /\ UNCHANGED registryVars
    /\ UNCHANGED <<last_damage, now, lastHit, twin_damage>>

ResetKillstreak(player) ==
    /\ killstreaks' = reset_killstreak_streaks(killstreaks, player)
    /\ last_damage' = reset_killstreak_damage(last_damage, player)
    /\ twin_streaks' = reset_killstreak_streaks(twin_streaks, player)
    /\ twin_damage' = reset_killstreak_damage(twin_damage, player)
    /\ lastHit' = [lastHit EXCEPT ![player] = NoHit]
    /\ ret' = RetNone
    /\ calls' = [calls EXCEPT ![player].streak = 0]
    /\ unspent' = unspent
    /\ event' = Event("reset_killstreak", player, {})
    /\ UNCHANGED registryVars
    /\ UNCHANGED <<kills, now, twin_kills>>

GetKills(player) ==
    /\ event' = Event("get_kills", player, {})
    /\ UNCHANGED registryVars
    /\ ret' = RetInt(get_kills(kills, player))
    /\ UNCHANGED <<kills, killstreaks, last_damage, now, lastHit, calls, unspent,
                   twin_kills, twin_streaks, twin_damage>>

GetKillstreak(player) ==
    /\ event' = Event("get_killstreak", player, {})
    /\ UNCHANGED registryVars
    /\ ret' = RetInt(get_killstreak(killstreaks, player))
    /\ UNCHANGED <<kills, killstreaks, last_damage, now, lastHit, calls, unspent,
                   twin_kills, twin_streaks, twin_damage>>

ClearPlayerData(player_name) ==
    /\ kills' = clear_player_data_kills(kills, player_name)
    /\ killstreaks' = clear_player_data_streaks(killstreaks, player_name)
    /\ last_damage' = clear_player_data_damage(last_damage, player_name)
    /\ twin_kills' = clear_player_data_kills(twin_kills, player_name)
    /\ twin_streaks' = clear_player_data_streaks(twin_streaks, player_name)
    /\ twin_damage' = clear_player_data_damage(twin_damage, player_name)
    /\ lastHit' = [lastHit EXCEPT ![player_name] = NoHit]
    /\ ret' = RetNone
    /\ calls' = [calls EXCEPT ![player_name] = NoCalls]
    /\ unspent' = unspent
    /\ event' = Event("clear_player_data", player_name, {})
    /\ UNCHANGED registryVars
    /\ UNCHANGED now

\* The scheduled task of on_enable, and any direct call.
CleanupOldDamageRecords ==
    /\ last_damage' = cleanup_old_damage_records(last_damage, now)
    /\ ret' = RetNone
    /\ event' = Event("cleanup_old_damage_records", None, {})
    /\ UNCHANGED registryVars
    /\ UNCHANGED <<kills, killstreaks, now, lastHit, calls, unspent,
                   twin_kills, twin_streaks, twin_damage>>

OnEntityDamageByEntity(entity, damager) ==
    IF damage_is_tracked(entity, damager)
    THEN RecordDamage(entity, damager)
    ELSE /\ ret' = RetNone
         /\ event' = Event("damage_not_tracked", None, {})
         /\ UNCHANGED registryVars
         /\ UNCHANGED <<kills, killstreaks, last_damage, now, lastHit, calls, unspent,
                        twin_kills, twin_streaks, twin_damage>>

OnPlayerDeath(victim, online) ==
    /\ LET killer == death_credit(last_damage, victim, online, now)
       IN  killer # None => get_kills(kills, killer) < MaxKills
    /\ LET killer == death_credit(twin_damage, victim, online, now)
       IN  killer # None => get_kills(twin_kills, killer) < MaxKills
    /\ kills' = on_player_death_kills(kills, last_damage, victim, online, now)
    /\ killstreaks' =
           on_player_death_streaks(killstreaks, last_damage, victim, online, now)
    /\ last_damage' = on_player_death_damage(last_damage, victim)
    /\ twin_kills' =
           on_player_death_kills(twin_kills, twin_damage, victim, online, now)
    /\ twin_streaks' =
           on_player_death_streaks(twin_streaks, twin_damage, victim, online, now)
    /\ twin_damage' = on_player_death_damage(twin_damage, victim)
    /\ lastHit' = [lastHit EXCEPT ![victim] = NoHit]
    /\ ret' = RetNone
    /\ calls' = LET killer == death_credit(last_damage, victim, online, now)
                IN  [(IF killer # None THEN Called(calls, killer) ELSE calls)
                        EXCEPT ![victim].streak = 0]
    /\ unspent' = IF death_credit(last_damage, victim, online, now) # None
                  THEN Counted(unspent, victim, -1)
                  ELSE unspent
    /\ event' = Event("player_death", victim, online)
    /\ UNCHANGED registryVars
    /\ UNCHANGED now

ledgerVars ==
    <<kills, killstreaks, last_damage, now, ret, lastHit, event, calls, unspent,
      twin_kills, twin_streaks, twin_damage>>

RegisterPlaceholder(plugin, identifier, processor) ==
    /\ registry' = register_placeholder_registry(registry, plugin, identifier, processor)
    /\ reg_call' = [op |-> "register_placeholder", plugin |-> plugin,
                    identifier |-> identifier, processor |-> processor,
                    result |-> register_placeholder(registry, plugin, identifier)]
    /\ UNCHANGED ledgerVars

SetKillTracker ==
    /\ registry' = _register_kill_placeholders(registry)
    /\ reg_call' = [NoRegCall EXCEPT !.op = "set_kill_tracker"]
    /\ UNCHANGED ledgerVars

IsRegistered(identifier) ==
    /\ reg_call' = [NoRegCall EXCEPT !.op = "is_registered",
                                     !.identifier = identifier,
                                     !.result = is_registered(registry, identifier)]
    /\ UNCHANGED registry
    /\ UNCHANGED ledgerVars

Next ==
    \/ \E d \in TickSteps : Tick(d)
    \/ \E victim \in Players, damager \in Players : RecordDamage(victim, damager)
    \/ \E victim \in Players : GetValidKiller(victim)
    \/ \E player \in Players : AddKill(player)
    \/ \E player \in Players : ResetKillstreak(player)
    \/ \E player \in Players : GetKills(player)
    \/ \E player \in Players : GetKillstreak(player)
    \/ \E player_name \in Players : ClearPlayerData(player_name)
    \/ CleanupOldDamageRecords
    \/ \E entity \in Entities, damager \in Entities :
           OnEntityDamageByEntity(entity, damager)
    \/ \E victim \in Players, online \in SUBSET Players :
           OnPlayerDeath(victim, online)

Spec == Init /\ [][Next]_vars

\* The plugin alone: the two event handlers, the scheduled sweep, and the
\* reads made by the kills / killstreak placeholders.  Nothing else calls the
\* KillTracker.
PluginNext ==
    \/ \E d \in TickSteps : Tick(d)
    \/ \E entity \in Entities, damager \in Entities :
           OnEntityDamageByEntity(entity, damager)
    \/ \E victim \in Players, online \in SUBSET Players :
           OnPlayerDeath(victim, online)
    \/ CleanupOldDamageRecords
    \/ \E player \in Players : GetKills(player)
    \/ \E player \in Players : GetKillstreak(player)

PluginSpec == Init /\ [][PluginNext]_vars

\* The plugin alone, with every victim's hits and credits counted.
PluginCountSpec == CountingInit /\ [][PluginNext]_vars

\* The placeholder registry alone: plugins register placeholders and ask
\* whether a name is taken; on_load hands over the kill tracker.
RegistryNext ==
    \/ \E plugin \in PluginNames, identifier \in Identifiers, processor \in Processors :
           RegisterPlaceholder(plugin, identifier, processor)
    \/ SetKillTracker
    \/ \E identifier \in Identifiers : IsRegistered(identifier)

RegistrySpec == Init /\ [][RegistryNext]_vars

\* The scheduler runs the sweep every 600 ticks for as long as the plugin is
\* enabled, and time passes.
PluginLiveSpec ==
    /\ PluginSpec
    /\ WF_vars(CleanupOldDamageRecords)
    /\ WF_vars(\E d \in TickSteps : Tick(d))

\* ------------------------------------------------------------------ claims
\* Times at which a query can be made from the current state on.
Later == now..(MaxTime + combat_timeout + 1)

\* C1: get_valid_killer(V) returns the attacker of V's last record_damage
\* (since V's last reset or clear) exactly while now <= its time +
\* combat_timeout, boundary included, and none when V has no such record.
C1_ValidKillerWindow ==
    \A v \in Players :
        get_valid_killer(last_damage, v, now) =
            IF lastHit[v] = NoHit THEN None
            ELSE IF now <= lastHit[v].time + combat_timeout
                 THEN lastHit[v].damager
                 ELSE None

\* A query made exactly combat_timeout after the hit has returned the attacker.
C1_Witness ==
    \E v \in Players :
        /\ lastHit[v] # NoHit
        /\ now = lastHit[v].time + combat_timeout
        /\ ret = RetName(lastHit[v].damager)

\* C2: a victim's record is that of its latest hit (attacker and time), so
\* right after record_damage(V, B) the killer of V is B, and from then on a
\* query for V returns B or none and never the attacker B replaced.
C2_LastHitOverwrite ==
    /\ \A v \in Players :
        /\ v \in DOMAIN last_damage => last_damage[v] = lastHit[v]
        /\ \A t \in Later :
               get_valid_killer(last_damage, v, t) \in {None, lastHit[v].damager}
    /\ event.op = "record_damage" =>
        /\ event.who \in DOMAIN last_damage
        /\ last_damage[event.who].time = now
        /\ get_valid_killer(last_damage, event.who, now) = lastHit[event.who].damager

\* record_damage(V, B) has just replaced a record of another attacker, made
\* at an earlier time.
C2_Witness ==
    /\ event.op = "record_damage"
    /\ event.hit # NoHit
    /\ event.hit.damager # lastHit[event.who].damager
    /\ event.hit.time < now
    /\ last_damage[event.who] = [damager |-> lastHit[event.who].damager, time |-> now]

\* C3 as stated: after clear_player_data(P), P has 0 kills, 0 killstreak, no
\* record as victim and is the attacker of no record.
C3_ClearRemovesEveryRole ==
    event.op = "clear_player_data" =>
        /\ get_kills(kills, event.who) = 0
        /\ get_killstreak(killstreaks, event.who) = 0
        /\ event.who \notin DOMAIN last_damage
        /\ \A v \in DOMAIN last_damage : last_damage[v].damager # event.who

\* C3 amended: clear_player_data(P) makes P's kills and killstreak 0 and
\* removes the record whose victim is P; every other victim's record is left
\* as it was, also when it names P as the attacker.
C3_ClearRemovesOwnEntries ==
    [][event'.op = "clear_player_data" =>
        LET P == event'.who
        IN  /\ get_kills(kills', P) = 0
            /\ get_killstreak(killstreaks', P) = 0
            /\ P \notin DOMAIN kills' \cup DOMAIN killstreaks' \cup DOMAIN last_damage'
            /\ DOMAIN last_damage' = DOMAIN last_damage \ {P}
            /\ \A v \in DOMAIN last_damage' : last_damage'[v] = last_damage[v]
            /\ \A q \in Players \ {P} :
                   /\ get_kills(kills', q) = get_kills(kills, q)
                   /\ get_killstreak(killstreaks', q) = get_killstreak(killstreaks, q)
      ]_vars

\* clear_player_data(P) has removed P's kills, streak and record, and another
\* victim's record still names P as a valid killer.
C3_Witness ==
    /\ event.op = "clear_player_data"
    /\ event.hit # NoHit
    /\ \E v \in Players \ {event.who} :
           get_valid_killer(last_damage, v, now) = event.who

\* C4: a death of V resets V's killstreak to 0 and removes V's record,
\* credited or not; add_kill is called once, for the killer, exactly when
\* get_valid_killer(V) returns a killer the server finds online, and for
\* nobody otherwise.
C4_DeathHandler ==
    [][event'.op = "player_death" =>
        LET V == event'.who
            killer == get_valid_killer(last_damage, V, now)
            credited == killer # None /\ killer \in event'.online
            Credit(p) == IF credited /\ p = killer THEN 1 ELSE 0
        IN  /\ V \in DOMAIN killstreaks'
            /\ killstreaks'[V] = 0
            /\ V \notin DOMAIN last_damage'
            /\ \A p \in Players :
                   get_kills(kills', p) = get_kills(kills, p) + Credit(p)
            /\ \A p \in Players \ {V} :
                   get_killstreak(killstreaks', p) =
                       get_killstreak(killstreaks, p) + Credit(p)
      ]_vars

\* V has died within combat_timeout of a hit by a killer found online, who
\* has the kill; V's streak is 0 and V's record is gone.
C4_Witness ==
    /\ event.op = "player_death"
    /\ event.hit # NoHit
    /\ now <= event.hit.time + combat_timeout
    /\ event.hit.damager \in event.online
    /\ event.hit.damager # event.who
    /\ get_kills(kills, event.hit.damager) = 1
    /\ get_killstreak(killstreaks, event.hit.damager) = 1
    /\ event.who \in DOMAIN killstreaks
    /\ killstreaks[event.who] = 0
    /\ event.who \notin DOMAIN last_damage

\* C5: when the death of V raises get_kills(A), V's most recent recorded hit
\* was dealt by A at most combat_timeout before; a death of V more than
\* combat_timeout after V's last recorded hit changes no kill count and sets
\* V's killstreak to 0.
C5_NoCreditForOldDamage ==
    [][event'.op = "player_death" =>
        LET V == event'.who
            hit == event'.hit
        IN  /\ \A A \in Players :
                   get_kills(kills', A) > get_kills(kills, A) =>
                       /\ hit # NoHit
                       /\ hit.damager = A
                       /\ now - hit.time <= combat_timeout
            /\ (hit # NoHit /\ now - hit.time > combat_timeout) =>
                   /\ \A p \in Players : get_kills(kills', p) = get_kills(kills, p)
                   /\ get_killstreak(killstreaks', V) = 0
      ]_vars

\* V has died more than combat_timeout after a hit by a player who is online:
\* that player has no kill, V's streak is 0.
C5_Witness ==
    /\ event.op = "player_death"
    /\ event.hit # NoHit
    /\ now - event.hit.time > combat_timeout
    /\ event.hit.damager \in event.online
    /\ get_kills(kills, event.hit.damager) = 0
    /\ event.who \in DOMAIN killstreaks
    /\ killstreaks[event.who] = 0

\* C6: add_kill(P) raises get_kills(P) and get_killstreak(P) by exactly 1,
\* from 0 for an unknown player; after N add_kill(P) calls with no reset or
\* clear of P in between (as on a fresh ledger) both are N.
C6_AddKillIncrements ==
    /\ [][event'.op = "add_kill" =>
            LET P == event'.who
            IN  /\ get_kills(kills', P) = get_kills(kills, P) + 1
                /\ get_killstreak(killstreaks', P) =
                       get_killstreak(killstreaks, P) + 1
                /\ (P \notin DOMAIN kills /\ P \notin DOMAIN killstreaks) =>
                       (kills'[P] = 1 /\ killstreaks'[P] = 1)
         ]_vars
    /\ [](\A p \in Players :
            calls[p].kills = calls[p].streak =>
                /\ get_kills(kills, p) = calls[p].kills
                /\ get_killstreak(killstreaks, p) = calls[p].kills)

\* The second of two add_kill(P) calls in a row has returned: both counts are 2.
C6_Witness ==
    /\ event.op = "add_kill"
    /\ calls[event.who] = [kills |-> MaxKills, streak |-> MaxKills]
    /\ kills[event.who] = MaxKills
    /\ killstreaks[event.who] = MaxKills
    /\ MaxKills >= 2

\* C7: reset_killstreak(P) sets P's killstreak to 0, creating the entry,
\* changes no kill count and removes P's record; get_valid_killer(P) is none
\* from then on, and a record for P only comes back with a record_damage
\* for P.
C7_ResetKillstreak ==
    [][/\ event'.op = "reset_killstreak" =>
            LET P == event'.who
            IN  /\ P \in DOMAIN killstreaks'
                /\ killstreaks'[P] = 0
                /\ kills' = kills
                /\ P \notin DOMAIN last_damage'
                /\ \A t \in Later : get_valid_killer(last_damage', P, t) = None
       /\ \A p \in Players :
            (p \notin DOMAIN last_damage /\ p \in DOMAIN last_damage') =>
                (event'.op = "record_damage" /\ event'.who = p)
      ]_vars

\* reset_killstreak(P) has run for a P with kills, a streak entry and a record
\* that was still valid: the streak is 0, the kills are there, the record gone.
C7_Witness ==
    /\ event.op = "reset_killstreak"
    /\ event.hit # NoHit
    /\ now <= event.hit.time + combat_timeout
    /\ get_kills(kills, event.who) >= 1
    /\ event.who \in DOMAIN killstreaks
    /\ killstreaks[event.who] = 0
    /\ event.who \notin DOMAIN last_damage

\* C8: cleanup_old_damage_records() removes exactly the records of age >
\* combat_timeout and leaves the others as they were; run again at the same
\* time it changes nothing.
C8_CleanupExact ==
    [][event'.op = "cleanup_old_damage_records" =>
        /\ DOMAIN last_damage' =
               {v \in DOMAIN last_damage : now - last_damage[v].time <= combat_timeout}
        /\ \A v \in DOMAIN last_damage' : last_damage'[v] = last_damage[v]
        /\ cleanup_old_damage_records(last_damage', now') = last_damage'
      ]_vars

\* A sweep has removed a record older than combat_timeout and kept one of age
\* exactly combat_timeout.
C8_Witness ==
    /\ event.op = "cleanup_old_damage_records"
    /\ \E v \in DOMAIN twin_damage :
           /\ v \notin DOMAIN last_damage
           /\ now - twin_damage[v].time > combat_timeout
    /\ \E u \in DOMAIN last_damage :
           now - last_damage[u].time = combat_timeout

\* C9: the sweep is invisible.  The ledger and a twin ledger that gets the
\* same calls without any cleanup_old_damage_records() hold the same kills
\* and killstreaks and answer every get_valid_killer query alike, now and at
\* any later time; the sweep's test and the validity test agree on every
\* record (a record is expired for the sweep iff it yields no killer).
C9_SweepInvisible ==
    /\ kills = twin_kills
    /\ killstreaks = twin_streaks
    /\ \A v \in Players, t \in Later :
           get_valid_killer(last_damage, v, t) = get_valid_killer(twin_damage, v, t)
    /\ \A v \in DOMAIN twin_damage, t \in Later :
           (v \notin DOMAIN cleanup_old_damage_records(twin_damage, t))
               <=> (get_valid_killer(twin_damage, v, t) = None)

\* A sweep has removed a record, a record of age exactly combat_timeout is
\* still there and still names its killer, and kills have been credited.
C9_Witness ==
    /\ \E v \in DOMAIN twin_damage : v \notin DOMAIN last_damage
    /\ \E u \in DOMAIN last_damage :
           /\ now - last_damage[u].time = combat_timeout
           /\ get_valid_killer(last_damage, u, now) = last_damage[u].damager
    /\ \E p \in Players : get_kills(kills, p) >= 1

\* C10: get_valid_killer, get_kills and get_killstreak change none of the
\* three maps: no record is removed, no entry is created.
C10_PureReads ==
    [][event'.op \in {"get_valid_killer", "get_kills", "get_killstreak"} =>
        /\ kills' = kills
        /\ killstreaks' = killstreaks
        /\ last_damage' = last_damage
      ]_vars

\* get_valid_killer has returned none for a victim whose record is expired,
\* and the record is still in the map; no entry exists for the other maps'
\* unknown players.
C10_Witness ==
    /\ event.op = "get_valid_killer"
    /\ ret = RetNone
    /\ event.who \in DOMAIN last_damage
    /\ now - last_damage[event.who].time > combat_timeout
    /\ event.who \notin DOMAIN kills
    /\ event.who \notin DOMAIN killstreaks

\* Players with no entry in any of the three maps.
Unknown == Players \ (DOMAIN kills \cup DOMAIN killstreaks \cup DOMAIN last_damage)

\* C11: for a player with no entries get_kills and get_killstreak return 0
\* and get_valid_killer returns none; reset_killstreak only creates the 0
\* streak entry; clear_player_data changes nothing, and neither does
\* cleanup_old_damage_records on an empty map.  Every one of these calls can
\* be made in every state (none fails).
C11_UnknownIdentity ==
    /\ [][LET P == event'.who
          IN  /\ (event'.op = "get_kills" /\ P \in Unknown) =>
                     (ret' = RetInt(0) /\ Unknown' = Unknown)
              /\ (event'.op = "get_killstreak" /\ P \in Unknown) =>
                     (ret' = RetInt(0) /\ Unknown' = Unknown)
              /\ (event'.op = "get_valid_killer" /\ P \in Unknown) =>
                     (ret' = RetNone /\ Unknown' = Unknown)
              /\ (event'.op = "reset_killstreak" /\ P \in Unknown) =>
                     /\ killstreaks' = Put(killstreaks, P, 0)
                     /\ kills' = kills
                     /\ last_damage' = last_damage
              /\ (event'.op = "clear_player_data" /\ P \in Unknown) =>
                     /\ kills' = kills
                     /\ killstreaks' = killstreaks
                     /\ last_damage' = last_damage
              /\ (event'.op = "cleanup_old_damage_records"
                      /\ last_damage = EmptyDict) =>
                     /\ kills' = kills
                     /\ killstreaks' = killstreaks
                     /\ last_damage' = last_damage
         ]_vars
    /\ [](/\ ENABLED CleanupOldDamageRecords
          /\ \A p \in Players :
                /\ ENABLED GetKills(p)
                /\ ENABLED GetKillstreak(p)
                /\ ENABLED GetValidKiller(p)
                /\ ENABLED ResetKillstreak(p)
                /\ ENABLED ClearPlayerData(p))

\* get_kills has returned 0 for a player with no entry, in a ledger that has
\* entries for the other player; the unknown player still has none.
C11_Witness ==
    /\ event.op = "get_kills"
    /\ event.who \in Unknown
    /\ ret = RetInt(0)
    /\ \E q \in Players \ {event.who} :
           q \in DOMAIN kills /\ q \in DOMAIN killstreaks /\ q \in DOMAIN last_damage

\* C12: every stored kill count and every stored killstreak is an integer
\* >= 0.
C12_CountsNonNegative ==
    /\ \A p \in DOMAIN kills : kills[p] \in Nat
    /\ \A p \in DOMAIN killstreaks : killstreaks[p] \in Nat

\* A player with kills whose streak was reset and is stored as 0.
C12_Witness ==
    \E p \in DOMAIN kills \cap DOMAIN killstreaks :
        /\ kills[p] = MaxKills
        /\ killstreaks[p] = 0
        /\ event.op = "reset_killstreak"
        /\ event.who = p

\* The call of the step added a kill for p: add_kill(p), or a death whose
\* handler called add_kill(p).
AddedKill(p) ==
    \/ event'.op = "add_kill" /\ event'.who = p
    \/ event'.op = "player_death" /\ calls'[p].kills = calls[p].kills + 1

\* C13: except by clear_player_data(P), P's kill count never decreases and
\* its entry is never removed; it changes only by an add_kill(P), and then
\* by 1.
C13_KillsMonotone ==
    [][\A p \in Players :
           ~(event'.op = "clear_player_data" /\ event'.who = p) =>
               /\ get_kills(kills', p) >= get_kills(kills, p)
               /\ p \in DOMAIN kills => p \in DOMAIN kills'
               /\ get_kills(kills', p) # get_kills(kills, p) =>
                      (AddedKill(p) /\ get_kills(kills', p) = get_kills(kills, p) + 1)
      ]_vars

\* clear_player_data of another player has left P's kills in place.
C13_Witness ==
    /\ event.op = "clear_player_data"
    /\ \E p \in Players \ {event.who} : p \in DOMAIN kills /\ kills[p] = MaxKills

\* C15: get_killstreak(P) is the number of add_kill(P) calls since the last
\* reset_killstreak(P) or clear_player_data(P), or since the start.
C15_StreakCountsCalls ==
    \A p \in Players : get_killstreak(killstreaks, p) = calls[p].streak

\* P has more kills than streak: a reset came between its add_kill calls, and
\* the streak counts the calls after it.
C15_Witness ==
    \E p \in Players :
        /\ calls[p] = [kills |-> MaxKills, streak |-> 1]
        /\ killstreaks[p] = 1
        /\ MaxKills >= 2

\* C17: record_damage(V, A) changes V's damage record and nothing else: the
\* kill and killstreak maps (no entry created) and every other victim's
\* record stay as they are.
C17_RecordDamageFrame ==
    [][event'.op = "record_damage" =>
        LET V == event'.who
        IN  /\ kills' = kills
            /\ killstreaks' = killstreaks
            /\ DOMAIN last_damage' = DOMAIN last_damage \cup {V}
            /\ \A u \in DOMAIN last_damage \ {V} : last_damage'[u] = last_damage[u]
      ]_vars

\* record_damage(V, A) has run while V and A had no kill or streak entry and
\* the other victim had an older record: they still have none, and the older
\* record is there.
C17_Witness ==
    /\ event.op = "record_damage"
    /\ event.who \in DOMAIN last_damage
    /\ last_damage[event.who].damager # event.who
    /\ DOMAIN kills = {}
    /\ DOMAIN killstreaks = {}
    /\ \E u \in DOMAIN last_damage \ {event.who} : last_damage[u].time < now

\* C19: get_killstreak(P) <= get_kills(P) for every player.
C19_StreakAtMostKills ==
    \A p \in Players : get_killstreak(killstreaks, p) <= get_kills(kills, p)

\* A player whose streak is below its kills, and one whose streak equals them.
C19_Witness ==
    \E p, q \in Players :
        /\ get_kills(kills, p) = MaxKills
        /\ get_killstreak(killstreaks, p) < MaxKills
        /\ get_kills(kills, q) >= 1
        /\ get_killstreak(killstreaks, q) = get_kills(kills, q)

\* C14: through the plugin's handlers no record names its own victim as the
\* attacker (a record is made only for two different players), and a
\* player's own death raises neither its kill count nor its killstreak.
C14_NoSelfCredit ==
    /\ [](\A v \in DOMAIN last_damage :
            last_damage[v].damager \in Players \ {v})
    /\ [][event'.op = "player_death" =>
            LET V == event'.who
            IN  /\ get_kills(kills', V) = get_kills(kills, V)
                /\ get_killstreak(killstreaks', V) <= get_killstreak(killstreaks, V)
         ]_vars

\* V, who had kills of its own, has died from the hit of another player: the
\* other player has the kill, V's kills are what they were.
C14_Witness ==
    /\ event.op = "player_death"
    /\ event.hit # NoHit
    /\ event.hit.damager # event.who
    /\ get_kills(kills, event.hit.damager) = MaxKills
    /\ get_kills(kills, event.who) = 1
    /\ calls[event.who] = [kills |-> 1, streak |-> 0]

\* A record that is older than combat_timeout once the clock has come to its
\* last value.
Reclaimable(v) ==
    /\ v \in DOMAIN last_damage
    /\ last_damage[v].time + 2 * combat_timeout <= MaxTime

\* C16: with the sweep running again and again and the clock moving, a record
\* that is not replaced by a newer one is eventually out of the map; right
\* after a sweep every record left has age <= combat_timeout.
C16_StaleReclaimed ==
    /\ [](event.op = "cleanup_old_damage_records" =>
            \A v \in DOMAIN last_damage :
                now - last_damage[v].time <= combat_timeout)
    /\ \A v \in Players : Reclaimable(v) ~> ~Reclaimable(v)

\* The sweep has taken out a record made at the start; the victim was not hit
\* again.
C16_Witness ==
    /\ event.op = "cleanup_old_damage_records"
    /\ \E v \in Players :
           /\ v \notin DOMAIN last_damage
           /\ lastHit[v] # NoHit
           /\ lastHit[v].time + 2 * combat_timeout <= MaxTime

\* C20: through the plugin's handlers a hit earns at most one kill.  A death
\* of V with no record_damage on V since V's previous death credits nobody,
\* whatever the time, because every death removes V's record; the kills
\* credited for V's deaths never exceed the damage events recorded against V.
C20_OneCreditPerHit ==
    /\ [](\A v \in DOMAIN unspent : unspent[v] >= 0)
    /\ [][(event'.op = "player_death" /\ event'.hit = NoHit) =>
            /\ kills' = kills
            /\ unspent' = unspent
         ]_vars
    /\ [][event'.op = "player_death" => event'.who \notin DOMAIN last_damage']_vars

\* V was hit once and has died twice with the killer online and no time
\* passed: the killer has one kill, V has no uncredited hit left.
C20_Witness ==
    /\ event.op = "player_death"
    /\ event.hit = NoHit
    /\ event.online = Players
    /\ now = 0
    /\ unspent[event.who] = 0
    /\ \E A \in Players \ {event.who} :
           /\ get_kills(kills, A) = 1
           /\ unspent[A] = 0
           /\ get_kills(kills, event.who) = 0

\* C18: register_placeholder never overwrites an entry.  A free identifier is
\* bound to the processor and True is returned; a taken one is retried as
\* '<plugin name>:<identifier>'; if that is taken too the registry is left
\* as it was and False is returned.  So no identifier's processor ever changes
\* once registered, and True is returned exactly when the registry gains one
\* entry.
C18_NeverOverwrites ==
    /\ [][\A i \in DOMAIN registry :
            i \in DOMAIN registry' /\ registry'[i] = registry[i]]_vars
    /\ [][reg_call'.op = "register_placeholder" /\ registryVars' # registryVars =>
            LET I  == reg_call'.identifier
                F  == reg_call'.processor
                R  == reg_call'.result
                FB == reg_call'.plugin \o ":" \o I
                Bound(id) == /\ R
                             /\ DOMAIN registry' = DOMAIN registry \cup {id}
                             /\ registry'[id] = F
            IN  /\ I \notin DOMAIN registry => Bound(I)
                /\ (I \in DOMAIN registry /\ FB \notin DOMAIN registry) => Bound(FB)
                /\ (I \in DOMAIN registry /\ FB \in DOMAIN registry) =>
                       ~R /\ registry' = registry
                /\ R <=> /\ DOMAIN registry \subseteq DOMAIN registry'
                         /\ Cardinality(DOMAIN registry') =
                                Cardinality(DOMAIN registry) + 1
         ]_vars

\* The plugin shop was refused: rank and shop:rank were both taken, by
\* processors other than the one it offered, and both kept theirs.
C18_Witness ==
    /\ reg_call.op = "register_placeholder"
    /\ reg_call.plugin = "shop"
    /\ reg_call.identifier = "rank"
    /\ ~reg_call.result
    /\ "rank" \in DOMAIN registry
    /\ "shop:rank" \in DOMAIN registry
    /\ registry["rank"] # reg_call.processor
    /\ registry["shop:rank"] # reg_call.processor

====
